---- MODULE Spec2Model ----
(***************************************************************************)
(* A model of webresource/_api.py: resources and resource groups, the      *)
(* resolver (path propagation, flattening, conflict / missing / circular   *)
(* dependency detection, dependency ordering) and resource URL creation.   *)
(*                                                                         *)
(* Nodes are numbered objects.  Resource names are strings, only compared  *)
(* for equality and tested for emptiness by the code.  Paths, file names   *)
(* and URLs are sequences of one-character strings, so that strip('/'),     *)
(* join and format are computed character by character.                    *)
(***************************************************************************)
EXTENDS Integers, Sequences, FiniteSets, TLC

\* ------------------------------------------------------------------ bounds

\* Number of resources of the trees of SpecOrder.
NumRes == 3

\* Number of resources of the trees of SpecConflict.
NumConf == 4

\* Number of nodes (resources and groups) of the trees of SpecTree and
\* SpecFlat.
NumNodes == 4

\* Number of _flat_resources() calls the caller makes in SpecFlat.
MaxFlatCalls == 2

\* ------------------------------------------------------------ object state

VARIABLES
    kind,           \* node -> the class of the object
    name,           \* node -> ResourceMixin.name
    path,           \* node -> ResourceMixin.path
    include,        \* node -> what ResourceMixin.include yields when read
    resolved_path,  \* node -> ResourceMixin._resolved_path
    depends,        \* resource -> Resource.depends
    members,        \* group -> ResourceGroup._members
    rootMembers,    \* ResourceResolver.members
    resource,       \* resource -> Resource.resource
    compressed,     \* resource -> Resource.compressed
    hash_,          \* resource -> Resource.hash_
    url,            \* resource -> Resource.url
    attrs,          \* resource -> the optional tag attributes it was given
    file_hash,      \* resource -> Resource._file_hash
    development,    \* config.development
    outcome,        \* what the latest resolve() call returned or raised
    prevOutcome,    \* what the resolve() call before it returned or raised
    prevPaths,      \* _resolved_path as the call before the latest left it
    flattened,      \* what the latest _flat_resources() call returned
    flatCalls,      \* number of _flat_resources() calls made by the caller
    asked,          \* the latest file_name / resource_url query and its answer
    called          \* the latest other call, its arguments and its result

treeVars == <<kind, name, path, include, depends, members, rootMembers>>
fileVars == <<resource, compressed, hash_, url, attrs>>
resolveVars == <<outcome, prevOutcome, prevPaths>>
flatVars == <<flattened, flatCalls>>

vars == <<treeVars, fileVars, resolved_path, file_hash, development,
          resolveVars, flatVars, asked, called>>

Resource == "Resource"
ScriptResource == "ScriptResource"
LinkResource == "LinkResource"
ResourceGroup == "ResourceGroup"

\* Names of resources; NameTab[i] is the i-th name in use.
NameTab == <<"res1", "res2", "res3", "res4", "res5", "res6">>

\* None, and the absence of an attribute; no string has such an element.
None == <<"None">>
NoAttr == <<"NoAttr">>

\* ------------------------------------------------------------- ResourceMixin

\* Mutant: a node's own path is returned whenever it has one.
MutOwnPathFirst(rp, n) == IF path[n] # <<>> THEN path[n] ELSE rp[n]

\* The resolved_path property of a node, read in the path assignment rp.
ResolvedPath(rp, n) == IF rp[n] # <<>> THEN rp[n] ELSE path[n]

\* ----------------------------------------------------------------- Resource

\* str.strip(ch)
RECURSIVE LStrip(_, _)
LStrip(s, ch) == IF s # <<>> /\ Head(s) = ch THEN LStrip(Tail(s), ch) ELSE s
RECURSIVE RStrip(_, _)
RStrip(s, ch) ==
    IF s # <<>> /\ s[Len(s)] = ch THEN RStrip(SubSeq(s, 1, Len(s) - 1), ch)
    ELSE s
Strip(s, ch) == RStrip(LStrip(s, ch), ch)

\* sep.join(parts)
RECURSIVE Join(_, _)
Join(parts, sep) ==
    IF parts = <<>> THEN <<>>
    ELSE IF Len(parts) = 1 THEN parts[1]
         ELSE parts[1] \o sep \o Join(Tail(parts), sep)

\* Truth value of a string or None.
Truthy(v) == v # None /\ v # <<>>

\* Mutant: the compressed file is taken in development mode.
MutFileNameInverted(r) ==
    IF development /\ Truthy(compressed[r]) THEN compressed[r] ELSE resource[r]

\* Resource.file_name
FileName(r) ==
    IF ~development /\ Truthy(compressed[r]) THEN compressed[r] ELSE resource[r]

\* base64 digest of the content of the file of the given name in the
\* resource's directory (file_path, file_data and the hash function); the
\* content of a file never changes, different files have different digests.
Digest(file) == <<"H", "(">> \o file \o <<")">>

\* Resource.file_hash: the value returned and the _file_hash it leaves.
FileHash(r) ==
    IF ~development /\ file_hash[r] # NoAttr
    THEN [value |-> file_hash[r], cache |-> file_hash[r]]
    ELSE [value |-> Digest(FileName(r)), cache |-> Digest(FileName(r))]

\* Resource.resource_url(base_url) with the paths rp in force: the URL
\* returned and the _file_hash the call leaves.
ResourceUrlIn(rp, r, base_url) ==
    IF url[r] # None THEN [value |-> url[r], cache |-> file_hash[r]]
    ELSE LET p == Strip(ResolvedPath(rp, r), "/")
             parts == IF p # <<>>
                      THEN <<Strip(base_url, "/"), p, FileName(r)>>
                      ELSE <<Strip(base_url, "/"), FileName(r)>>
             u == Join(parts, <<"/">>)
         IN IF hash_[r]
            THEN [value |-> u \o <<"#">> \o FileHash(r).value,
                  cache |-> FileHash(r).cache]
            ELSE [value |-> u, cache |-> file_hash[r]]

\* Resource.resource_url(base_url)
ResourceUrlOf(r, base_url) == ResourceUrlIn(resolved_path, r, base_url)

\* ------------------------------------------------------- ResourceResolver

\* Mutant: member.resolved_path = path + '/' + member.resolved_path, the
\* inherited path as a prefix of the member's path.
RECURSIVE MutResolvePathsJoin(_, _, _)
MutResolvePathsJoin(rp, mems, p) ==
    IF mems = <<>> THEN rp
    ELSE LET member == Head(mems)
             rp1 == IF p # <<>>
                    THEN [rp EXCEPT ![member] =
                              p \o <<"/">> \o ResolvedPath(rp, member)]
                    ELSE rp
             rp2 == IF kind[member] = ResourceGroup
                    THEN MutResolvePathsJoin(rp1, members[member],
                                             ResolvedPath(rp1, member))
                    ELSE rp1
         IN MutResolvePathsJoin(rp2, Tail(mems), p)

\* _resolve_paths(members, path): returns the _resolved_path assignment the
\* loop leaves behind, starting from the assignment rp.
RECURSIVE ResolvePaths(_, _, _)
ResolvePaths(rp, mems, p) ==
    IF mems = <<>> THEN rp
    ELSE LET member == Head(mems)
             rp1 == IF p # <<>> THEN [rp EXCEPT ![member] = p] ELSE rp
             rp2 == IF kind[member] = ResourceGroup
                    THEN ResolvePaths(rp1, members[member],
                                      ResolvedPath(rp1, member))
                    ELSE rp1
         IN ResolvePaths(rp2, Tail(mems), p)

\* Mutant: include is only looked at for resources, so that an excluded
\* group still gives its members.
RECURSIVE MutFlatLeavesOnly(_)
MutFlatLeavesOnly(mems) ==
    IF mems = <<>> THEN <<>>
    ELSE LET member == Head(mems)
             here == IF kind[member] = ResourceGroup
                     THEN MutFlatLeavesOnly(members[member])
                     ELSE IF include[member] THEN <<member>> ELSE <<>>
         IN here \o MutFlatLeavesOnly(Tail(mems))

\* Mutant: include is only looked at for groups.
RECURSIVE MutFlatGroupsOnly(_)
MutFlatGroupsOnly(mems) ==
    IF mems = <<>> THEN <<>>
    ELSE LET member == Head(mems)
             here == IF kind[member] = ResourceGroup
                     THEN IF include[member]
                          THEN MutFlatGroupsOnly(members[member])
                          ELSE <<>>
                     ELSE <<member>>
         IN here \o MutFlatGroupsOnly(Tail(mems))

\* _flat_resources(members)
RECURSIVE FlatResources(_)
FlatResources(mems) ==
    IF mems = <<>> THEN <<>>
    ELSE LET member == Head(mems)
             here == IF ~include[member] THEN <<>>
                     ELSE IF kind[member] = ResourceGroup
                          THEN FlatResources(members[member])
                          ELSE <<member>>
         IN here \o FlatResources(Tail(mems))

\* Elements of a sequence.
Range(s) == {s[i] : i \in DOMAIN s}

\* names = [res.name for res in resources]
NamesOf(resources) == [i \in DOMAIN resources |-> name[resources[i]]]

\* Counter(names)[n]
Count(names, n) == Cardinality({i \in DOMAIN names : names[i] = n})

\* len(resources) != len(counter)
HasConflict(resources) ==
    Len(resources) # Cardinality(Range(NamesOf(resources)))

\* Mutant: the loop over the counter stops at the first conflicting name.
MutFirstConflict(names) ==
    LET dup == {i \in DOMAIN names : Count(names, names[i]) > 1}
    IN IF dup = {} THEN <<>>
       ELSE <<names[CHOOSE i \in dup : \A j \in dup : i <= j]>>

\* ResourceConflictError.__init__: the names with count > 1, in the order
\* of the counter's keys (first occurrence in names).
Conflicting(names) ==
    LET firsts == SelectSeq([i \in DOMAIN names |-> i],
                            LAMBDA i : \A j \in 1..(i - 1) : names[j] # names[i])
        keys == [k \in DOMAIN firsts |-> names[firsts[k]]]
    IN SelectSeq(keys, LAMBDA n : Count(names, n) > 1)

\* list.remove(x): drops the first occurrence of x.
Remove(s, x) ==
    LET i == CHOOSE k \in DOMAIN s : s[k] = x /\ \A j \in 1..(k - 1) : s[j] # x
    IN SubSeq(s, 1, i - 1) \o SubSeq(s, i + 1, Len(s))

\* list.index(x)
Index(s, x) == CHOOSE k \in DOMAIN s : s[k] = x /\ \A j \in 1..(k - 1) : s[j] # x

\* Mutant: ret.append(resource), behind everything placed so far.
MutAppend(s, pos, x) == Append(s, x)

\* Mutant: ret.insert(index + 2, resource), one place further back.
MutInsertFurther(s, pos, x) ==
    LET at == IF pos + 1 <= Len(s) THEN pos + 1 ELSE Len(s)
    IN SubSeq(s, 1, at) \o <<x>> \o SubSeq(s, at + 1, Len(s))

\* Mutant: ret.insert(index, resource), in front of the dependency.
MutInsertBefore(s, pos, x) ==
    SubSeq(s, 1, pos - 1) \o <<x>> \o SubSeq(s, pos, Len(s))

\* ret.insert(index + 1, resource): x goes behind the element at the 1-based
\* position pos.
InsertAfter(s, pos, x) == SubSeq(s, 1, pos) \o <<x>> \o SubSeq(s, pos + 1, Len(s))

\* handled[n] of the dict handled, kept as a set of <<key, value>> pairs
\* with one pair per key.
HandledKeys(handled) == {kv[1] : kv \in handled}
HandledGet(handled, n) == (CHOOSE kv \in handled : kv[1] = n)[2]

\* dict assignment handled[k] = v
HandledPut(handled, k, v) == {kv \in handled : kv[1] # k} \cup {<<k, v>>}

\* Mutant: the dependency is looked up among the names of all resources of
\* the tree, excluded ones too.
MutIsMissing(res, names) ==
    depends[res] \notin {name[r] : r \in DOMAIN depends}

\* resource.depends not in names
IsMissing(res, names) == depends[res] \notin Range(names)

\* The first loop of resolve(): resources without dependency go to ret and
\* handled and leave the pending list; a dependency that is no name at all
\* raises.  st = [ret, handled, pending, missing]; missing = 0 when nothing
\* was raised.
RECURSIVE Seed(_, _, _)
Seed(st, todo, names) ==
    IF todo = <<>> THEN st
    ELSE LET res == Head(todo) IN
         IF depends[res] = ""
         THEN Seed([st EXCEPT !.ret = Append(@, res),
                              !.handled = HandledPut(@, name[res], res),
                              !.pending = Remove(@, res)],
                   Tail(todo), names)
         ELSE IF IsMissing(res, names)
              THEN [st EXCEPT !.missing = res]
              ELSE Seed(st, Tail(todo), names)

\* One run of the "for resource in resources[:]" loop of the while loop:
\* the first pending resource whose dependency is handled is inserted
\* behind it, and the loop breaks.
Pass(st) ==
    LET ready == {i \in DOMAIN st.pending :
                      depends[st.pending[i]] \in HandledKeys(st.handled)}
    IN IF ready = {} THEN st
       ELSE LET i == CHOOSE k \in ready : \A j \in ready : k <= j
                res == st.pending[i]
                dependency == HandledGet(st.handled, depends[res])
                index == Index(st.ret, dependency)
            IN [st EXCEPT !.ret = InsertAfter(@, index, res),
                          !.handled = HandledPut(@, name[res], res),
                          !.pending = Remove(@, res)]

\* Mutant: one pass less than there are pending resources.
RECURSIVE MutPassesShort(_, _)
MutPassesShort(st, count) ==
    IF count > 1 THEN MutPassesShort(Pass(st), count - 1) ELSE st

\* while count > 0: count -= 1; <one pass>
RECURSIVE Passes(_, _)
Passes(st, count) == IF count > 0 THEN Passes(Pass(st), count - 1) ELSE st

NoOutcome ==
    [status |-> "none", ret |-> <<>>, conflicting |-> <<>>, missing |-> 0,
     circular |-> <<>>]

\* Mutant: the list is returned whatever is still pending.
MutFinish(final) == [NoOutcome EXCEPT !.status = "ok", !.ret = final.ret]

\* if resources: raise ResourceCircularDependencyError(resources); return ret
Finish(final) ==
    IF final.pending # <<>>
    THEN [NoOutcome EXCEPT !.status = "ResourceCircularDependencyError",
                           !.circular = final.pending]
    ELSE [NoOutcome EXCEPT !.status = "ok", !.ret = final.ret]

\* resolve() from the flat resource list on: the list returned, or the
\* error raised with what it carries.
Order(resources) ==
    LET names == NamesOf(resources) IN
    IF HasConflict(resources)
    THEN [NoOutcome EXCEPT !.status = "ResourceConflictError",
                           !.conflicting = Conflicting(names)]
    ELSE LET seeded == Seed([ret |-> <<>>, handled |-> {},
                             pending |-> resources, missing |-> 0],
                            resources, names)
         IN IF seeded.missing # 0
            THEN [NoOutcome EXCEPT !.status = "ResourceMissingDependencyError",
                                   !.missing = seeded.missing]
            ELSE Finish(Passes(seeded, Len(seeded.pending)))

NoCall == [op |-> "none", args |-> <<>>, status |-> "none", value |-> None]

NoQuery == [op |-> "none", node |-> 0, development |-> FALSE, value |-> None]

\* Mutant: the paths are handed down only when a list is returned.
MutResolveNoPathsOnError ==
    /\ resolved_path' = IF Order(FlatResources(rootMembers)).status = "ok"
                        THEN ResolvePaths(resolved_path, rootMembers, <<>>)
                        ELSE resolved_path
    /\ outcome' = Order(FlatResources(rootMembers))
    /\ prevOutcome' = outcome
    /\ prevPaths' = resolved_path
    /\ UNCHANGED <<treeVars, fileVars, file_hash, development, flatVars,
                   asked, called>>

\* resolver.resolve()
Resolve ==
    /\ resolved_path' = ResolvePaths(resolved_path, rootMembers, <<>>)
    /\ outcome' = Order(FlatResources(rootMembers))
    /\ prevOutcome' = outcome
    /\ prevPaths' = resolved_path
    /\ UNCHANGED <<treeVars, fileVars, file_hash, development, flatVars,
                   asked, called>>

\* ------------------------------------------------- reading a tree (claims)

Nodes == DOMAIN kind
Resources == {n \in Nodes : kind[n] # ResourceGroup}
Groups == {n \in Nodes : kind[n] = ResourceGroup}

\* The group a node is a member of; 0 for a member of the resolver itself.
Parent(n) ==
    LET above == {g \in DOMAIN members : \E i \in DOMAIN members[g] :
                                             members[g][i] = n}
    IN IF above = {} THEN 0 ELSE CHOOSE g \in above : TRUE

\* The node and every group above it have include true.
RECURSIVE Visible(_)
Visible(n) == include[n] /\ (Parent(n) = 0 \/ Visible(Parent(n)))

\* The resources that remain after inclusion filtering.
Remaining == {r \in Resources : Visible(r)}

\* The names of the resources in rem are unique.
Unique(rem) == \A r, q \in rem : name[r] = name[q] => r = q
NamesUnique == Unique(Remaining)

\* dep[r]: the resource of rem that r depends on (0: none, or r = 0).
DepMap(rem) ==
    [r \in rem \cup {0} |->
        IF r # 0 /\ depends[r] # "" /\ \E q \in rem : name[q] = depends[r]
        THEN CHOOSE q \in rem : name[q] = depends[r]
        ELSE 0]

\* r of rem has a non-empty dependsOn that names no resource of rem.
Offending(rem, r) ==
    r \in rem /\ depends[r] # "" /\ \A q \in rem : name[q] # depends[r]

\* k steps up the dependsOn relation from r (0: the chain ended before).
RECURSIVE Walk(_, _, _)
Walk(dep, r, k) == IF k = 0 \/ r = 0 THEN r ELSE Walk(dep, dep[r], k - 1)

\* The resources r depends on, directly or transitively.
RECURSIVE Above(_, _, _)
Above(dep, r, k) ==
    IF k = 0 \/ dep[r] = 0 THEN {} ELSE {dep[r]} \cup Above(dep, dep[r], k - 1)
OnCycle(dep, r) == r \in Above(dep, r, Cardinality(DOMAIN dep))

\* The resource without dependency that the dependsOn chain of r ends in
\* (for a chain that ends).
RECURSIVE RootOf(_, _)
RootOf(dep, r) == IF dep[r] = 0 THEN r ELSE RootOf(dep, dep[r])

\* Position of a resource in the flattened declaration sequence.
Flat == FlatResources(rootMembers)

Resolved == outcome.status # "none"
Returned == outcome.status = "ok"

\* --------------------------------------------------------------- SpecOrder

\* Resources as the tests build them: a file res.js, nothing else given;
\* the mode flag as ResourceConfig.__init__ sets it.
ResourceFile == <<"r", "e", "s", ".", "j", "s">>
InitFiles(rs) ==
    /\ resource = [r \in rs |-> ResourceFile]
    /\ compressed = [r \in rs |-> None]
    /\ hash_ = [r \in rs |-> FALSE]
    /\ url = [r \in rs |-> None]
    /\ attrs = [r \in rs |-> <<>>]
    /\ file_hash = [r \in rs |-> NoAttr]
    /\ development = FALSE

\* Nothing has been called yet.
InitCalls ==
    /\ outcome = NoOutcome
    /\ prevOutcome = NoOutcome
    /\ prevPaths = resolved_path
    /\ flattened = <<>>
    /\ flatCalls = 0
    /\ asked = NoQuery
    /\ called = NoCall

\* Names matter to the code by equality only: the i-th distinct name met in
\* declaration order is NameTab[i].
InOrderOfFirstUse(nm, n) ==
    \A i \in 1..n : \E k \in 1..n :
        /\ nm[i] = NameTab[k]
        /\ IF k = 1 THEN TRUE
           ELSE \E j \in 1..(i - 1) : nm[j] = NameTab[k - 1]

\* Trees of n resources 1..n declared in this order, the last one inside a
\* group (node n + 1, named like the first resource) that is the last root
\* member and decides on that resource's inclusion.  deps are the names a
\* resource may depend on.
InitResources(n, deps) ==
    /\ kind = [i \in 1..(n + 1) |-> IF i <= n THEN Resource ELSE ResourceGroup]
    /\ name \in [1..(n + 1) -> {NameTab[i] : i \in 1..n}]
    /\ name[n + 1] = NameTab[1]
    /\ InOrderOfFirstUse(name, n)
    /\ path = [i \in 1..(n + 1) |-> <<>>]
    /\ include \in [1..(n + 1) -> BOOLEAN]
    /\ include[n]
    /\ resolved_path = [i \in 1..(n + 1) |-> <<>>]
    /\ depends \in [1..n -> deps \cup {""}]
    /\ members = [g \in {n + 1} |-> <<n>>]
    /\ rootMembers = [i \in 1..n |-> IF i < n THEN i ELSE n + 1]
    /\ InitFiles(1..n)
    /\ InitCalls

InitOrder ==
    InitResources(NumRes, {NameTab[i] : i \in 1..NumRes} \cup {"missing"})

NextOrder == Resolve

SpecOrder == InitOrder /\ [][NextOrder]_vars

\* C1: in every list resolve() returns, a resource with a non-empty
\* dependsOn = D sits strictly behind the returned resource named D; a chain
\* A, B depends on A, C depends on B resolves to exactly [A, B, C] in
\* every declaration order.
C1_DependencyFirst ==
    /\ Returned =>
         \A i \in DOMAIN outcome.ret :
            depends[outcome.ret[i]] # "" =>
               /\ \E j \in DOMAIN outcome.ret :
                     name[outcome.ret[j]] = depends[outcome.ret[i]]
               /\ \A j \in DOMAIN outcome.ret :
                     name[outcome.ret[j]] = depends[outcome.ret[i]] => j < i
    /\ Resolved =>
         LET rem == Remaining IN
         (Cardinality(rem) = 3 /\ Unique(rem)) =>
            \A a, b, c \in rem :
               (depends[a] = "" /\ depends[b] = name[a] /\ depends[c] = name[b])
               => outcome.status = "ok" /\ outcome.ret = <<a, b, c>>

\* The chain declared in the order C, B, A has been resolved to [A, B, C].
C1_Witness ==
    \E a, b, c \in Resources :
        /\ Flat = <<c, b, a>>
        /\ depends[a] = "" /\ depends[b] = name[a] /\ depends[c] = name[b]
        /\ outcome.ret = <<a, b, c>>

\* C2: a returned list holds exactly the resources that remain after
\* inclusion filtering, each once, and no group.
C2_ExactlyRemaining ==
    Returned =>
        LET rem == Remaining IN
        /\ Len(outcome.ret) = Cardinality(rem)
        /\ Range(outcome.ret) = rem
        /\ \A i, j \in DOMAIN outcome.ret :
              outcome.ret[i] = outcome.ret[j] => i = j
        /\ \A i \in DOMAIN outcome.ret : kind[outcome.ret[i]] = Resource

\* A list was returned for a tree with an excluded resource, an included
\* group and a dependent resource.
C2_Witness ==
    /\ Returned
    /\ \E r \in Resources : ~include[r]
    /\ \E g \in Groups : include[g] /\ members[g] # <<>>
    /\ \E r \in Remaining : depends[r] # ""
    /\ Len(outcome.ret) >= 2

\* C4: with unique remaining names, a remaining resource whose non-empty
\* dependsOn names no remaining resource makes resolve() fail with
\* ResourceMissingDependencyError naming such a resource, whatever cycles
\* or dependents there are.
C4_MissingDependency ==
    Resolved =>
        LET rem == Remaining IN
        (Unique(rem) /\ \E r \in rem : Offending(rem, r)) =>
            /\ outcome.status = "ResourceMissingDependencyError"
            /\ outcome.ret = <<>>
            /\ Offending(rem, outcome.missing)

\* The error was raised although a resource declared before the offending
\* one depends on itself, and the missing name is the name of an excluded
\* resource.
C4_Witness ==
    /\ outcome.status = "ResourceMissingDependencyError"
    /\ \E r, c \in Remaining :
          /\ Offending(Remaining, r)
          /\ \E x \in Resources \ Remaining : name[x] = depends[r]
          /\ depends[c] = name[c]
          /\ Index(Flat, c) < Index(Flat, r)

\* C5: with unique remaining names and every dependency present, a cycle
\* in dependsOn makes resolve() fail with ResourceCircularDependencyError,
\* which carries every resource that lies on a cycle.
C5_CircularDependency ==
    Resolved =>
        LET rem == Remaining
            dep == DepMap(rem)
            cyclic == {r \in rem : OnCycle(dep, r)}
        IN (Unique(rem) /\ cyclic # {} /\ \A r \in rem : ~Offending(rem, r)) =>
            /\ outcome.status = "ResourceCircularDependencyError"
            /\ outcome.ret = <<>>
            /\ cyclic \subseteq Range(outcome.circular)

\* A depends on B and B on A, and the error carries both.
C5_Witness ==
    /\ outcome.status = "ResourceCircularDependencyError"
    /\ \E a, b \in Remaining :
          /\ a # b /\ depends[a] = name[b] /\ depends[b] = name[a]
          /\ {a, b} \subseteq Range(outcome.circular)

\* C15: with unique remaining names, every non-empty dependsOn naming a
\* remaining resource and no cycle in dependsOn, resolve() does not fail
\* with ResourceCircularDependencyError (nor otherwise): as many passes as
\* there are pending resources after seeding place every one of them.
C15_PassesSuffice ==
    Resolved =>
        LET rem == Remaining
            dep == DepMap(rem)
        IN ( /\ Unique(rem)
             /\ \A r \in rem : ~Offending(rem, r) /\ ~OnCycle(dep, r) )
           => /\ outcome.status = "ok"
              /\ Range(outcome.ret) = rem

\* A list was returned for a chain declared in reverse order, every
\* resource in front of the one it depends on: each pass but the last
\* finds a single resource ready, the last one in the pending list.
C15_Witness ==
    /\ Returned
    /\ Len(outcome.ret) = NumRes
    /\ LET flat == Flat IN
       /\ \A i \in 1..(NumRes - 1) : depends[flat[i]] = name[flat[i + 1]]
       /\ \A i \in 1..NumRes : outcome.ret[i] = flat[NumRes + 1 - i]

\* C16 as claimed: in every returned list each resource with a non-empty
\* dependsOn has exactly the index of its dependency plus one, also when
\* several resources depend on the same resource.
C16_DependentAdjacent ==
    Returned =>
        LET dep == DepMap(Remaining) IN
        \A r \in Range(outcome.ret) :
            dep[r] # 0 =>
                Index(outcome.ret, r) = Index(outcome.ret, dep[r]) + 1

\* C16 as amended: in every returned list each resource with a non-empty
\* dependsOn comes behind its dependency, and every resource between the
\* two depends on that dependency too, directly or transitively; so it has
\* the index of its dependency plus one whenever it is the only resource
\* that depends on it.
C16_OnlyDependentsBetween ==
    Returned =>
        LET dep == DepMap(Remaining)
            n == Len(outcome.ret)
        IN \A r \in Range(outcome.ret) :
            dep[r] # 0 =>
                LET i == Index(outcome.ret, dep[r])
                    j == Index(outcome.ret, r)
                IN /\ i < j
                   /\ \A k \in (i + 1)..(j - 1) :
                          dep[r] \in Above(dep, outcome.ret[k], n)
                   /\ (\A q \in Range(outcome.ret) :
                          dep[q] = dep[r] => q = r) => j = i + 1

\* Two resources depend on the same resource: the one declared first is
\* not next to its dependency, the other one is in between.
C16_Witness ==
    /\ Returned
    /\ \E d, r, q \in Range(outcome.ret) :
          /\ r # q
          /\ depends[r] = name[d] /\ depends[q] = name[d]
          /\ Index(Flat, r) < Index(Flat, q)
          /\ Index(outcome.ret, q) = Index(outcome.ret, d) + 1
          /\ Index(outcome.ret, r) = Index(outcome.ret, d) + 2

\* C7 as claimed: two returned resources neither of which depends on the
\* other, directly or transitively, keep their flatten order.
C7_FlattenOrderKept ==
    Returned =>
        LET dep == DepMap(Remaining)
            n == Len(outcome.ret)
            flat == Flat
        IN \A i, j \in DOMAIN outcome.ret :
            ( /\ i < j
              /\ outcome.ret[j] \notin Above(dep, outcome.ret[i], n)
              /\ outcome.ret[i] \notin Above(dep, outcome.ret[j], n) )
            => Index(flat, outcome.ret[i]) < Index(flat, outcome.ret[j])

\* C7 as amended: two returned resources whose dependsOn chains end in
\* different resources are ordered like the two chain ends in the flattened
\* declaration sequence; in particular two resources without dependency
\* keep their flatten order.
C7_RootsKeepFlattenOrder ==
    Returned =>
        LET dep == DepMap(Remaining)
            flat == Flat
            root == [i \in DOMAIN outcome.ret |->
                        Index(flat, RootOf(dep, outcome.ret[i]))]
        IN \A i, j \in DOMAIN outcome.ret :
              (i < j /\ root[i] # root[j]) => root[i] < root[j]

\* Two resources without dependency and one that depends on the first of
\* them were resolved.
C7_Witness ==
    /\ Returned
    /\ \E x, y, z \in Remaining :
          /\ depends[x] = "" /\ depends[y] = "" /\ depends[z] = name[x]
          /\ Flat = <<x, y, z>>
          /\ outcome.ret = <<x, z, y>>

\* ------------------------------------------------------------ SpecConflict

\* Four resources, so that two names can each be used twice; a resource
\* depends on nothing or on the first name.
InitConflict == InitResources(NumConf, {NameTab[1]})

NextConflict == Resolve

SpecConflict == InitConflict /\ [][NextConflict]_vars

\* C3: resolve() fails with ResourceConflictError, returning no list,
\* exactly when two or more resources that remain after inclusion filtering
\* share a name, and the error names exactly the names used more than once
\* among the remaining resources.
C3_ConflictNames ==
    Resolved =>
        /\ (outcome.status = "ResourceConflictError") = ~NamesUnique
        /\ ~NamesUnique =>
              /\ outcome.ret = <<>>
              /\ Range(outcome.conflicting) =
                    {name[r] : r \in {q \in Remaining :
                                \E p \in Remaining : p # q /\ name[p] = name[q]}}
              /\ \A i, j \in DOMAIN outcome.conflicting :
                    outcome.conflicting[i] = outcome.conflicting[j] => i = j

\* The error names two names, each used by two remaining resources.
C3_Witness ==
    /\ outcome.status = "ResourceConflictError"
    /\ Len(outcome.conflicting) = 2
    /\ \A i \in DOMAIN outcome.conflicting :
          Cardinality({r \in Remaining : name[r] = outcome.conflicting[i]}) = 2

\* ---------------------------------------------------------------- SpecTree

\* The elements of a set of numbers in increasing order.
RECURSIVE Sorted(_)
Sorted(S) ==
    IF S = {} THEN <<>>
    ELSE LET lo == CHOOSE x \in S : \A y \in S : x <= y
         IN <<lo>> \o Sorted(S \ {lo})

\* PathTab[n]: the path node n is configured with, when it has one.
PathTab ==
    << <<"a">>, <<"/", "b">>, <<"c", "/">>, <<"/", "d", "/">>, <<"e", "/", "e">>,
       <<"f">> >>

\* Every tree of n nodes: node i is a resource or a group, created as a
\* member of the resolver or (group=...) of a group created before it, so
\* that members are in order of creation.
InitShape(n) ==
    /\ kind \in [1..n -> {Resource, ResourceGroup}]
    /\ \E parent \in [1..n -> 0..(n - 1)] :
          /\ \A i \in 1..n :
                /\ parent[i] < i
                /\ IF parent[i] = 0 THEN TRUE
                   ELSE kind[parent[i]] = ResourceGroup
          /\ members = [g \in {i \in 1..n : kind[i] = ResourceGroup} |->
                            Sorted({i \in 1..n : parent[i] = g})]
          /\ rootMembers = Sorted({i \in 1..n : parent[i] = 0})

\* The resource declared after r, in order of creation (0: none).
NextResource(n, r) ==
    LET later == {q \in (r + 1)..n : kind[q] = Resource}
    IN IF later = {} THEN 0 ELSE CHOOSE q \in later : \A x \in later : q <= x

\* Names and dependencies of the trees of SpecTree: distinct names and no
\* dependencies; each resource depending on the one declared after it;
\* the same with the last one depending on the first one, or on a name
\* nobody has; or one name for all.
InitNames(n, profile) ==
    LET rs == {i \in 1..n : kind[i] = Resource}
        first == CHOOSE r \in rs : \A q \in rs : r <= q
        chain == [r \in rs |-> IF NextResource(n, r) = 0 THEN ""
                               ELSE NameTab[NextResource(n, r)]]
        ends(last) == [r \in rs |-> IF NextResource(n, r) = 0 THEN last
                                    ELSE chain[r]]
    IN /\ name = [i \in 1..n |-> IF profile = "dup" THEN NameTab[1]
                                 ELSE NameTab[i]]
       /\ depends = CASE profile = "chain" -> chain
                      [] profile = "cycle" -> ends(NameTab[first])
                      [] profile = "missing" -> ends("missing")
                      [] OTHER -> [r \in rs |-> ""]

InitTree ==
    /\ InitShape(NumNodes)
    /\ \E profile \in {"none", "chain", "cycle", "missing", "dup"} :
          InitNames(NumNodes, profile)
    /\ \E withPath \in SUBSET (1..NumNodes) :
          path = [i \in 1..NumNodes |->
                     IF i \in withPath THEN PathTab[i] ELSE <<>>]
    /\ include = [i \in 1..NumNodes |-> TRUE]
    /\ resolved_path = [i \in 1..NumNodes |-> <<>>]
    /\ InitFiles({i \in 1..NumNodes : kind[i] = Resource})
    /\ InitCalls

NextTree == Resolve

SpecTree == InitTree /\ [][NextTree]_vars

\* The path handed down to node n: the path of the outermost group above n
\* that has a non-empty path (empty: there is none).
RECURSIVE Inherited(_)
Inherited(n) ==
    LET g == Parent(n) IN
    IF g = 0 THEN <<>>
    ELSE LET up == Inherited(g) IN IF up # <<>> THEN up ELSE path[g]

\* A second resolve() call in a row has been made.
ResolvedTwice == prevOutcome.status # "none"

\* C6: a second resolve() call on the unmodified tree gives the outcome of
\* the first one, the same list or the same error, and leaves every node's
\* resolved_path as the first call left it.
C6_ResolveTwice ==
    ResolvedTwice =>
        /\ outcome = prevOutcome
        /\ \A n \in Nodes :
              ResolvedPath(resolved_path, n) = ResolvedPath(prevPaths, n)

\* Two calls were made on a tree in which a path was handed down through a
\* group to a node with a path of its own, and the list returned is not in
\* declaration order.
C6_Witness ==
    /\ ResolvedTwice
    /\ Returned /\ outcome.ret # Flat
    /\ \E n \in Nodes :
          /\ path[n] # <<>>
          /\ Parent(n) # 0 /\ Parent(Parent(n)) # 0
          /\ resolved_path[n] \notin {<<>>, path[n]}

\* C8: after resolve() on a freshly built tree a node has its own path as
\* resolved_path exactly when no group above it has a non-empty path, and
\* otherwise the path of the outermost group above it that has one.
C8_OutermostPath ==
    Resolved =>
        \A n \in Nodes :
            ResolvedPath(resolved_path, n) =
                IF Inherited(n) = <<>> THEN path[n] ELSE Inherited(n)

\* Nested groups and a resource in the inner one, each with a path of its
\* own: the resource and the inner group have the outer group's path.
C8_Witness ==
    /\ Resolved
    /\ \E g1, g2 \in Groups : \E r \in Resources :
          /\ Parent(g1) = 0 /\ Parent(g2) = g1 /\ Parent(r) = g2
          /\ path[g1] # <<>> /\ path[g2] # <<>> /\ path[r] # <<>>
          /\ ResolvedPath(resolved_path, r) = path[g1]
          /\ ResolvedPath(resolved_path, g2) = path[g1]

\* C18: a resolve() call, whether it returns a list or raises, leaves
\* every node's class, name, path, include and depends, every group's
\* member list and the resolver's member list as they were, and of
\* resolved_path it changes what path propagation assigns, which it has
\* assigned to the whole tree also when the call fails: every node below
\* a group with a path has the inherited path, every other node the value
\* it had.
C18_OnlyResolvedPath ==
    [][/\ treeVars' = treeVars
       /\ outcome'.status # "none"
       /\ \A n \in Nodes :
              resolved_path'[n] = IF Inherited(n) # <<>> THEN Inherited(n)
                                  ELSE resolved_path[n]
      ]_vars

\* A call failed, and a node two groups down has the path handed down.
C18_Witness ==
    /\ outcome.status \in {"ResourceConflictError",
                            "ResourceMissingDependencyError",
                            "ResourceCircularDependencyError"}
    /\ \E n \in Nodes :
          /\ Parent(n) # 0 /\ Parent(Parent(n)) # 0
          /\ path[Parent(Parent(n))] # <<>>
          /\ resolved_path[n] = path[Parent(Parent(n))]

\* --------------------------------------------------------------- SpecPaths

\* Number of nodes of the trees of SpecPaths.
NumPathNodes == 3

\* The application assigns node.path = p.
SetPath(n, p) ==
    /\ p # path[n]
    /\ path' = [path EXCEPT ![n] = p]
    /\ UNCHANGED <<kind, name, include, depends, members, rootMembers,
                   fileVars, resolved_path, file_hash, development,
                   resolveVars, flatVars, asked, called>>

\* Every tree of NumPathNodes nodes, resources of distinct names without
\* dependencies, any of the nodes with a path.
InitPaths ==
    /\ InitShape(NumPathNodes)
    /\ InitNames(NumPathNodes, "none")
    /\ \E withPath \in SUBSET (1..NumPathNodes) :
          path = [i \in 1..NumPathNodes |->
                     IF i \in withPath THEN PathTab[i] ELSE <<>>]
    /\ include = [i \in 1..NumPathNodes |-> TRUE]
    /\ resolved_path = [i \in 1..NumPathNodes |-> <<>>]
    /\ InitFiles({i \in 1..NumPathNodes : kind[i] = Resource})
    /\ InitCalls

NextPaths ==
    \/ Resolve
    \/ \E n \in Nodes : \E p \in {<<>>, PathTab[n], PathTab[6]} :
          SetPath(n, p)

SpecPaths == InitPaths /\ [][NextPaths]_vars

\* C17: each resolve() recomputes resolved_path from scratch: after a
\* resolve() call that follows any sequence of resolve() calls and path
\* changes, every node's resolved_path is what a first resolve() assigns
\* on a freshly built tree of the current configuration.  (A step that
\* leaves the paths alone is a resolve() call.)  It fails: _resolve_paths
\* writes nothing where no path is inherited, so the _resolved_path an
\* earlier call wrote stays when the group's path is cleared.
C17_RecomputedFromScratch ==
    [][path' = path =>
          LET fresh == ResolvePaths([n \in Nodes |-> <<>>], rootMembers, <<>>)
          IN \A n \in Nodes :
                ResolvedPath(resolved_path', n) = ResolvedPath(fresh, n)
      ]_vars

\* ---------------------------------------------------------------- SpecFlat

\* resolver._flat_resources(), called by the caller as the tests do.
FlatCall ==
    /\ flatCalls < MaxFlatCalls
    /\ flattened' = FlatResources(rootMembers)
    /\ flatCalls' = flatCalls + 1
    /\ UNCHANGED <<treeVars, fileVars, resolved_path, file_hash, development,
                   resolveVars, asked, called>>

\* The caller sets the include flag of a node, or the predicate given as
\* include starts to answer differently.
SetInclude(n, b) ==
    /\ include[n] # b
    /\ include' = [include EXCEPT ![n] = b]
    /\ UNCHANGED <<kind, name, path, depends, members, rootMembers, fileVars,
                   resolved_path, file_hash, development, resolveVars,
                   flatVars, asked, called>>

\* Every tree of NumNodes nodes, with distinct names, no dependencies and no
\* paths, everything included.
InitFlat ==
    /\ InitShape(NumNodes)
    /\ InitNames(NumNodes, "none")
    /\ path = [i \in 1..NumNodes |-> <<>>]
    /\ include = [i \in 1..NumNodes |-> TRUE]
    /\ resolved_path = [i \in 1..NumNodes |-> <<>>]
    /\ InitFiles({i \in 1..NumNodes : kind[i] = Resource})
    /\ InitCalls

NextFlat ==
    \/ FlatCall
    \/ \E n \in Nodes, b \in BOOLEAN : SetInclude(n, b)

SpecFlat == InitFlat /\ [][NextFlat]_vars

\* All resource leaves below the given members in depth-first declaration
\* order, whatever include says.
RECURSIVE Leaves(_)
Leaves(mems) ==
    IF mems = <<>> THEN <<>>
    ELSE (IF kind[Head(mems)] = ResourceGroup
          THEN Leaves(members[Head(mems)])
          ELSE <<Head(mems)>>) \o Leaves(Tail(mems))

\* C9: every _flat_resources() call returns, in depth-first declaration
\* order, exactly the resource leaves for which the leaf and every group
\* above it have include true at the moment of the call, whatever was
\* returned or set before.
C9_FlattenNow ==
    [][flatCalls' # flatCalls =>
          flattened' = SelectSeq(Leaves(rootMembers), Visible)]_vars

\* A second call, made after include values were changed, left out an
\* included resource below an excluded group and returned another one.
C9_Witness ==
    /\ flatCalls = 2
    /\ flattened # <<>>
    /\ flattened = Flat
    /\ \E g \in Groups : \E r \in Resources :
          /\ Parent(r) = g /\ ~include[g] /\ include[r]
          /\ r \notin Range(flattened)

\* ----------------------------------------------------------------- SpecUrl

CompressedFile == <<"r", "e", "s", ".", "m", "i", "n", ".", "j", "s">>
ExternalUrl == <<"h", ":", "/", "/", "x", "/", "s", ".", "j", "s">>
BaseUrls == { <<"h", ":", "/", "/", "t">>, <<"h", ":", "/", "/", "t", "/">> }

\* The application switches config.development.
SetDevelopment(b) ==
    /\ development # b
    /\ development' = b
    /\ UNCHANGED <<treeVars, fileVars, resolved_path, file_hash, resolveVars,
                   flatVars, asked, called>>

\* The caller reads resource.file_name.
FileNameQuery(r) ==
    /\ asked' = [op |-> "file_name", node |-> r, development |-> development,
                 value |-> FileName(r)]
    /\ UNCHANGED <<treeVars, fileVars, resolved_path, file_hash, development,
                   resolveVars, flatVars, called>>

\* The caller calls resource.resource_url(base_url).
ResourceUrl(r, base_url) ==
    /\ asked' = [op |-> "resource_url", node |-> r,
                 development |-> development,
                 value |-> ResourceUrlOf(r, base_url).value]
    /\ file_hash' = [file_hash EXCEPT ![r] = ResourceUrlOf(r, base_url).cache]
    /\ UNCHANGED <<treeVars, fileVars, resolved_path, development,
                   resolveVars, flatVars, called>>

\* A group (node 1) with one resource (node 2) in it, with or without paths;
\* the resource with a file and a compressed file, an external URL, or
\* both, with and without hash.
InitUrl ==
    /\ kind = <<ResourceGroup, Resource>>
    /\ name = <<NameTab[1], NameTab[2]>>
    /\ path \in [1..2 -> {<<>>, PathTab[3], PathTab[4]}]
    /\ path[1] \in {<<>>, PathTab[4]}
    /\ path[2] \in {<<>>, PathTab[3]}
    /\ include = <<TRUE, TRUE>>
    /\ resolved_path = <<<<>>, <<>>>>
    /\ depends = [r \in {2} |-> ""]
    /\ members = [g \in {1} |-> <<2>>]
    /\ rootMembers = <<1>>
    /\ resource \in [{2} -> {ResourceFile, None}]
    /\ url \in [{2} -> {ExternalUrl, None}]
    /\ resource[2] # None \/ url[2] # None
    /\ compressed \in [{2} -> {None, <<>>, CompressedFile}]
    /\ hash_ \in [{2} -> BOOLEAN]
    /\ attrs = [r \in {2} |-> <<>>]
    /\ file_hash = [r \in {2} |-> NoAttr]
    /\ development = FALSE
    /\ InitCalls

NextUrl ==
    \/ Resolve
    \/ \E b \in BOOLEAN : SetDevelopment(b)
    \/ \E r \in Resources : FileNameQuery(r)
    \/ \E r \in Resources, base_url \in BaseUrls : ResourceUrl(r, base_url)

SpecUrl == InitUrl /\ [][NextUrl]_vars

\* The file name the claim selects for resource r in the given mode.
Selected(dev, r) ==
    IF dev = FALSE /\ compressed[r] \notin {None, <<>>} THEN compressed[r]
    ELSE resource[r]

EndsWith(s, t) ==
    Len(t) <= Len(s) /\ SubSeq(s, Len(s) - Len(t) + 1, Len(s)) = t

\* The part of a URL in front of its fragment.
RECURSIVE BeforeFragment(_)
BeforeFragment(u) ==
    IF u = <<>> \/ Head(u) = "#" THEN <<>>
    ELSE <<Head(u)>> \o BeforeFragment(Tail(u))

FileNameAsSelected ==
    asked.op = "file_name" =>
        asked.value = Selected(asked.development, asked.node)

\* C10 as claimed: whenever file_name is read it is the compressed file name
\* exactly when the mode is production at that moment and a compressed
\* name is configured, the primary file name otherwise; the URL of a
\* resource without external URL ends in the file name selected by the
\* mode in force at the call.
C10_UrlEndsInFileName ==
    /\ FileNameAsSelected
    /\ (asked.op = "resource_url" /\ url[asked.node] = None) =>
          EndsWith(asked.value, Selected(asked.development, asked.node))

\* C10 as amended: the same for file_name; the URL of a resource without
\* external URL ends in the selected file name when hash_ is off, and when
\* it is on the selected file name is followed by "#" and the hash.
C10_UrlFileNameThenFragment ==
    /\ FileNameAsSelected
    /\ (asked.op = "resource_url" /\ url[asked.node] = None) =>
          LET u == BeforeFragment(asked.value) IN
          /\ EndsWith(u, Selected(asked.development, asked.node))
          /\ IF hash_[asked.node]
             THEN /\ Len(asked.value) > Len(u) + 1
                  /\ asked.value[Len(u) + 1] = "#"
             ELSE asked.value = u

\* After the mode was switched to development, the URL of a resource with a
\* compressed file, a path handed down by resolve() and no hash ends in the
\* primary file name.
C10_Witness ==
    /\ asked.op = "resource_url"
    /\ asked.development
    /\ url[asked.node] = None
    /\ compressed[asked.node] = CompressedFile
    /\ ~hash_[asked.node]
    /\ resolved_path[asked.node] # <<>>
    /\ EndsWith(asked.value, <<"/", "d", "/">> \o ResourceFile)

\* The fragment of a URL: what follows its first "#".
RECURSIVE Fragment(_)
Fragment(u) ==
    IF u = <<>> THEN <<>>
    ELSE IF Head(u) = "#" THEN Tail(u) ELSE Fragment(Tail(u))

\* C11: the hash fragment of the URL of a hash-enabled resource without
\* external URL is the digest of the file selected by the mode in force at
\* the call: the compressed file's digest in production when a compressed
\* name is configured, the primary file's digest in development. It fails:
\* file_hash returns in production the _file_hash a development call left,
\* which is the digest of the primary file.
C11_HashOfSelectedFile ==
    (asked.op = "resource_url" /\ url[asked.node] = None /\ hash_[asked.node])
        => Fragment(asked.value) =
               Digest(Selected(asked.development, asked.node))

\* ----------------------------------------------------------------- SpecTag

MaxAttrs == 3

\* Unicode code points of the characters attribute strings are made of.
Letters ==
    <<"a", "b", "c", "d", "e", "f", "g", "h", "i", "j", "k", "l", "m",
      "n", "o", "p", "q", "r", "s", "t", "u", "v", "w", "x", "y", "z">>
CodePoint(c) ==
    CASE c = "\"" -> 34
      [] c = "-" -> 45
      [] c = "=" -> 61
      [] OTHER -> 96 + (CHOOSE i \in DOMAIN Letters : Letters[i] = c)

\* s < t for two strings, as Python compares them.
RECURSIVE StrLess(_, _)
StrLess(s, t) ==
    IF t = <<>> THEN FALSE
    ELSE IF s = <<>> THEN TRUE
    ELSE IF Head(s) = Head(t) THEN StrLess(Tail(s), Tail(t))
    ELSE CodePoint(Head(s)) < CodePoint(Head(t))

\* sorted(strings)
RECURSIVE SortedStrings(_)
SortedStrings(strings) ==
    IF strings = <<>> THEN <<>>
    ELSE LET rest == SortedStrings(Tail(strings))
             x == Head(strings)
             front == SelectSeq(rest, LAMBDA y : StrLess(y, x))
             back == SelectSeq(rest, LAMBDA y : ~StrLess(y, x))
         IN front \o <<x>> \o back

\* u'{0}="{1}"'.format(name, val)
FormatAttr(a) == a[1] \o <<"=", "\"">> \o a[2] \o <<"\"">>

\* The list attrs_ of _render_tag before it is sorted; the keyword
\* arguments are pairs <<name, val>> in insertion order.
RECURSIVE FormatAttrs(_)
FormatAttrs(kw) ==
    IF kw = <<>> THEN <<>>
    ELSE (IF Head(kw)[2] = None THEN <<>> ELSE <<FormatAttr(Head(kw))>>)
         \o FormatAttrs(Tail(kw))

\* The tag around the attribute part.
TagAround(tag, closing_tag, attrs_) ==
    IF ~closing_tag
    THEN <<"<">> \o tag \o attrs_ \o <<" ", "/", ">">>
    ELSE <<"<">> \o tag \o attrs_ \o <<">", "<", "/">> \o tag \o <<">">>

\* Resource._render_tag(tag, closing_tag, **attrs)
RenderTagOf(tag, closing_tag, kw) ==
    TagAround(tag, closing_tag,
              <<" ">> \o Join(SortedStrings(FormatAttrs(kw)), <<" ">>))

\* A caller (a subclass's render) calls _render_tag.
RenderTag(tag, closing_tag, kw) ==
    /\ called' = [op |-> "_render_tag", args |-> <<tag, closing_tag, kw>>,
                  status |-> "ok",
                  value |-> RenderTagOf(tag, closing_tag, kw)]
    /\ UNCHANGED <<treeVars, fileVars, resolved_path, file_hash, development,
                   resolveVars, flatVars, asked>>

TagNames == { <<"a">> }
AttrNames == { <<"a">>, <<"a", "-", "b">>, <<"a", "b">>, <<"b">> }
AttrValues == { None, <<"x">> }

\* Keyword arguments: up to MaxAttrs attributes of different names, in any
\* insertion order.
KeywordArgs ==
    UNION {{kw \in [1..n -> AttrNames \X AttrValues] :
               \A i, j \in 1..n : i # j => kw[i][1] # kw[j][1]} :
           n \in 0..MaxAttrs}

InitTag == InitResources(1, {})

NextTag ==
    \E tag \in TagNames, closing_tag \in BOOLEAN, kw \in KeywordArgs :
        RenderTag(tag, closing_tag, kw)

SpecTag == InitTag /\ [][NextTag]_vars

\* The attributes that have a value, ordered by attribute name.
RECURSIVE ByName(_)
ByName(kw) ==
    IF kw = <<>> THEN <<>>
    ELSE LET rest == ByName(Tail(kw))
             x == Head(kw)
             front == SelectSeq(rest, LAMBDA y : StrLess(y[1], x[1]))
             back == SelectSeq(rest, LAMBDA y : ~StrLess(y[1], x[1]))
         IN IF x[2] = None THEN rest ELSE front \o <<x>> \o back

RECURSIVE Formatted(_)
Formatted(kw) ==
    IF kw = <<>> THEN <<>>
    ELSE <<FormatAttr(Head(kw))>> \o Formatted(Tail(kw))

\* C12: the output of _render_tag holds exactly the attributes whose value
\* is not None, each as name="value", in lexicographic order of attribute
\* name, in a self-closing tag when closing_tag is false and in an empty
\* open/close pair otherwise. It fails: the code sorts the formatted
\* strings name="value", so that a name followed by a character below "="
\* (a-b) comes in front of the name that is its prefix (a).
C12_AttrsSortedByName ==
    called.op = "_render_tag" =>
        called.value =
            TagAround(called.args[1], called.args[2],
                      <<" ">> \o Join(Formatted(ByName(called.args[3])),
                                      <<" ">>))

\* -------------------------------------------------------------- SpecRender

NumTags == 2

\* The optional attributes of the render dictionaries, in their order.
ScriptAttrs ==
    << <<"c", "r", "o", "s", "s", "o", "r", "i", "g", "i", "n">>, <<"r", "e", "f", "e", "r", "r", "e", "r", "p", "o", "l", "i", "c", "y">>,
       <<"t", "y", "p", "e">>, <<"a", "s", "y", "n", "c">>,
       <<"d", "e", "f", "e", "r">>, <<"i", "n", "t", "e", "g", "r", "i", "t", "y">>,
       <<"n", "o", "m", "o", "d", "u", "l", "e">> >>
LinkAttrs ==
    << <<"c", "r", "o", "s", "s", "o", "r", "i", "g", "i", "n">>, <<"r", "e", "f", "e", "r", "r", "e", "r", "p", "o", "l", "i", "c", "y">>,
       <<"t", "y", "p", "e">>, <<"h", "r", "e", "f", "l", "a", "n", "g">>,
       <<"m", "e", "d", "i", "a">>, <<"r", "e", "l">>,
       <<"s", "i", "z", "e", "s">>, <<"t", "i", "t", "l", "e">> >>
TypeAttr == <<"t", "y", "p", "e">>
TypeValue == <<"x">>

\* ScriptResource.render / LinkResource.render / Resource.render with the
\* paths rp in force: the tag, or the error raised, and the _file_hash left.
RenderOf(rp, r, base_url) ==
    LET u == ResourceUrlIn(rp, r, base_url) IN
    IF kind[r] = ScriptResource
    THEN [status |-> "ok", cache |-> u.cache,
          value |-> RenderTagOf(<<"s", "c", "r", "i", "p", "t">>, TRUE,
                                <<<<<<"s", "r", "c">>, u.value>>>> \o attrs[r])]
    ELSE IF kind[r] = LinkResource
    THEN [status |-> "ok", cache |-> u.cache,
          value |-> RenderTagOf(<<"l", "i", "n", "k">>, FALSE,
                                <<<<<<"h", "r", "e", "f">>, u.value>>>> \o attrs[r])]
    ELSE [status |-> "NotImplementedError", cache |-> file_hash[r],
          value |-> None]

\* Mutant: a resource whose render raises is left out of the string.
RECURSIVE MutRenderEachSkips(_, _, _, _)
MutRenderEachSkips(rp, todo, base_url, acc) ==
    IF todo = <<>> THEN acc
    ELSE LET r == Head(todo)
             one == RenderOf(rp, r, base_url)
         IN IF one.status # "ok"
            THEN MutRenderEachSkips(rp, Tail(todo), base_url, acc)
            ELSE MutRenderEachSkips(rp, Tail(todo), base_url,
                                    [acc EXCEPT !.tags = Append(@, one.value),
                                                !.file_hash[r] = one.cache])

\* The list comprehension of ResourceRenderer.render: the resources are
\* rendered in order until one of them raises.
RECURSIVE RenderEach(_, _, _, _)
RenderEach(rp, todo, base_url, acc) ==
    IF todo = <<>> THEN acc
    ELSE LET r == Head(todo)
             one == RenderOf(rp, r, base_url)
         IN IF one.status # "ok" THEN [acc EXCEPT !.status = one.status]
            ELSE RenderEach(rp, Tail(todo), base_url,
                            [acc EXCEPT !.tags = Append(@, one.value),
                                        !.file_hash[r] = one.cache])

\* ResourceRenderer.render() of a renderer with the given base_url
Render(base_url) ==
    LET rp == ResolvePaths(resolved_path, rootMembers, <<>>)
        out == Order(FlatResources(rootMembers))
        start == [status |-> out.status, tags |-> <<>>,
                  file_hash |-> file_hash]
        done == IF out.status = "ok"
                THEN RenderEach(rp, out.ret, base_url, start)
                ELSE start
    IN /\ resolved_path' = rp
       /\ outcome' = out
       /\ prevOutcome' = outcome
       /\ prevPaths' = resolved_path
       /\ file_hash' = done.file_hash
       /\ called' = [op |-> "render", args |-> <<base_url>>,
                     status |-> done.status,
                     value |-> IF done.status = "ok"
                               THEN Join(done.tags, <<"\n">>)
                               ELSE None]
       /\ UNCHANGED <<treeVars, fileVars, development, flatVars, asked>>

\* The optional attributes of a resource of class k, type given or not.
AttrsOf(k, typed) ==
    LET names == IF k = ScriptResource THEN ScriptAttrs
                 ELSE IF k = LinkResource THEN LinkAttrs ELSE <<>>
    IN [i \in DOMAIN names |->
           <<names[i],
             IF typed /\ names[i] = TypeAttr THEN TypeValue ELSE None>>]

\* n scripts and links, the last one inside a group that is the last root
\* member and has a path.  The first one has a compressed file and may
\* have a hash and a type; the last one may be a base Resource instead,
\* and is external when it is a link.
InitRender ==
    LET n == NumTags IN
    /\ kind \in [1..(n + 1) ->
                    {Resource, ScriptResource, LinkResource, ResourceGroup}]
    /\ \A i \in 1..(n + 1) : (kind[i] = ResourceGroup) = (i = n + 1)
    /\ \A i \in 1..(n - 1) : kind[i] # Resource
    /\ name \in [1..(n + 1) -> {NameTab[i] : i \in 1..n}]
    /\ name[n + 1] = NameTab[1]
    /\ InOrderOfFirstUse(name, n)
    /\ path = [i \in 1..(n + 1) |-> IF i <= n THEN <<>> ELSE PathTab[4]]
    /\ include = [i \in 1..(n + 1) |-> TRUE]
    /\ resolved_path = [i \in 1..(n + 1) |-> <<>>]
    /\ depends \in [1..n -> {NameTab[1], NameTab[n], "", "missing"}]
    /\ members = [g \in {n + 1} |-> <<n>>]
    /\ rootMembers = [i \in 1..n |-> IF i < n THEN i ELSE n + 1]
    /\ resource = [r \in 1..n |-> ResourceFile]
    /\ compressed = [r \in 1..n |-> IF r = 1 THEN CompressedFile ELSE None]
    /\ url = [r \in 1..n |-> IF r = n /\ kind[r] = LinkResource
                              THEN ExternalUrl ELSE None]
    /\ \E extras \in BOOLEAN :
          /\ hash_ = [r \in 1..n |-> extras /\ r = 1]
          /\ attrs = [r \in 1..n |-> AttrsOf(kind[r], extras /\ r = 1)]
    /\ file_hash = [r \in 1..n |-> NoAttr]
    /\ development = FALSE
    /\ InitCalls

NextRender ==
    \/ \E base_url \in BaseUrls : Render(base_url)
    \/ \E b \in BOOLEAN : SetDevelopment(b)

SpecRender == InitRender /\ [][NextRender]_vars

\* The lines of a string: its parts between newlines.
RECURSIVE SplitLines(_)
SplitLines(s) ==
    IF \A i \in DOMAIN s : s[i] # "\n" THEN <<s>>
    ELSE LET k == CHOOSE i \in DOMAIN s :
                      s[i] = "\n" /\ \A j \in 1..(i - 1) : s[j] # "\n"
         IN <<SubSeq(s, 1, k - 1)>> \o SplitLines(SubSeq(s, k + 1, Len(s)))

\* What a render() call that resolved to out and returned or raised res
\* has to give, the tags being those of the resources as the call finds
\* them, under the paths rp the call's resolve() assigns.
Rendered(rp, out, res) ==
    /\ res.op = "render"
    /\ out = Order(Flat)
    /\ rp = ResolvePaths(resolved_path, rootMembers, <<>>)
    /\ IF out.status # "ok"
       THEN res.status = out.status /\ res.value = None
       ELSE IF \E i \in DOMAIN out.ret : kind[out.ret[i]] = Resource
       THEN res.status = "NotImplementedError" /\ res.value = None
       ELSE /\ res.status = "ok"
            /\ IF out.ret = <<>> THEN res.value = <<>>
               ELSE SplitLines(res.value) =
                        [i \in DOMAIN out.ret |->
                            RenderOf(rp, out.ret[i], res.args[1]).value]

\* C13: render() performs one resolve() and returns the tags of exactly
\* the resolved resources, one per resource, in resolve order, separated by
\* a single newline with no leading or trailing newline; if resolve() fails
\* or the render of a resource fails (a base Resource), render() fails with
\* that error and returns no string.  (A step that leaves the mode alone
\* is a render() call.)
C13_RenderAllOrNothing ==
    [][development' = development =>
          /\ Rendered(resolved_path', outcome', called')
          /\ prevOutcome' = outcome
      ]_vars

\* A render() that fails at its second resource, a base Resource, after it
\* has rendered a script with hash.
C13_Witness ==
    /\ called.op = "render"
    /\ called.status = "NotImplementedError"
    /\ called.value = None
    /\ Len(outcome.ret) = 2
    /\ kind[outcome.ret[1]] = ScriptResource
    /\ file_hash[outcome.ret[1]] # NoAttr
    /\ kind[outcome.ret[2]] = Resource

\* --------------------------------------------------------------- SpecBuild

\* Number of objects the application constructs.
MaxObjects == 3

\* Mutant: self._members.insert(0, member)
MutGroupAddFront(mems, g, member) ==
    IF member = 0
    THEN [status |-> "ResourceError", members |-> mems]
    ELSE [status |-> "ok",
          members |-> [mems EXCEPT ![g] = <<member>> \o @]]

\* ResourceGroup.add(member) on group g, the member lists being mems: how
\* the call ends and the member lists it leaves.  Every node, also one
\* under construction, is an instance of Resource or ResourceGroup; 0
\* stands for an object that is neither.
GroupAdd(mems, g, member) ==
    IF member = 0
    THEN [status |-> "ResourceError", members |-> mems]
    ELSE [status |-> "ok", members |-> [mems EXCEPT ![g] = Append(@, member)]]

\* The application calls group.add(member), for an object it has not put
\* into a group yet.
Add(g, member) ==
    /\ \A h \in DOMAIN members : \A i \in DOMAIN members[h] :
           members[h][i] # member
    /\ members' = GroupAdd(members, g, member).members
    /\ called' = [op |-> "add", args |-> <<g, member>>,
                  status |-> GroupAdd(members, g, member).status,
                  value |-> None]
    /\ UNCHANGED <<kind, name, path, include, depends, rootMembers, fileVars,
                   resolved_path, file_hash, development, resolveVars,
                   flatVars, asked>>

\* Resource(resource=res, url=u, group=group), group 0 standing for None:
\* the new object is the next node.
NewResource(res, u, group) ==
    LET new == Len(kind) + 1 IN
    /\ new <= MaxObjects
    /\ IF res = None /\ u = None
       THEN /\ called' = [op |-> "Resource", args |-> <<res, u, group>>,
                          status |-> "ResourceError", value |-> None]
            /\ UNCHANGED <<treeVars, fileVars, resolved_path, file_hash>>
       ELSE /\ kind' = Append(kind, Resource)
            /\ name' = Append(name, "")
            /\ path' = Append(path, <<>>)
            /\ include' = Append(include, TRUE)
            /\ resolved_path' = Append(resolved_path, <<>>)
            /\ depends' = depends @@ (new :> "")
            /\ resource' = resource @@ (new :> res)
            /\ compressed' = compressed @@ (new :> None)
            /\ hash_' = hash_ @@ (new :> FALSE)
            /\ url' = url @@ (new :> u)
            /\ attrs' = attrs @@ (new :> <<>>)
            /\ file_hash' = file_hash @@ (new :> NoAttr)
            /\ members' = IF group # 0
                          THEN GroupAdd(members, group, new).members
                          ELSE members
            /\ called' = [op |-> "Resource", args |-> <<res, u, group>>,
                          status |-> "ok", value |-> new]
            /\ UNCHANGED rootMembers
    /\ UNCHANGED <<development, resolveVars, flatVars, asked>>

\* ResourceGroup(group=group), group 0 standing for None: the new group is
\* added to the given one before its own member list is set.
NewGroup(group) ==
    LET new == Len(kind) + 1 IN
    /\ new <= MaxObjects
    /\ kind' = Append(kind, ResourceGroup)
    /\ name' = Append(name, "")
    /\ path' = Append(path, <<>>)
    /\ include' = Append(include, TRUE)
    /\ resolved_path' = Append(resolved_path, <<>>)
    /\ members' = (IF group # 0
                   THEN GroupAdd(members, group, new).members
                   ELSE members) @@ (new :> <<>>)
    /\ called' = [op |-> "ResourceGroup", args |-> <<group>>,
                  status |-> "ok", value |-> new]
    /\ UNCHANGED <<depends, rootMembers, fileVars, file_hash, development,
                   resolveVars, flatVars, asked>>

\* One empty group, handed to a resolver.
InitBuild ==
    /\ kind = <<ResourceGroup>>
    /\ name = <<"">>
    /\ path = <<<<>>>>
    /\ include = <<TRUE>>
    /\ resolved_path = <<<<>>>>
    /\ depends = <<>>
    /\ members = <<<<>>>>
    /\ rootMembers = <<1>>
    /\ InitFiles({})
    /\ InitCalls

NextBuild ==
    \/ \E g \in Groups, member \in Nodes \cup {0} : Add(g, member)
    \/ \E res \in {None, ResourceFile}, u \in {None, ExternalUrl},
          group \in Groups \cup {0} : NewResource(res, u, group)
    \/ \E group \in Groups \cup {0} : NewGroup(group)

SpecBuild == InitBuild /\ [][NextBuild]_vars

\* C14: constructing a resource with neither a file nor an external URL
\* fails with ResourceError, adding to a group a member that is neither a
\* Resource nor a ResourceGroup fails with ResourceError, and in both cases
\* every member list is as it was and no object has come into being (a
\* rejected resource constructed with group=G is not added to G); every
\* accepted add or construction with a group appends the member at the end
\* of that group's member list and leaves the other lists alone.
C14_RejectedNotAdded ==
    [][LET c == called'
           isNode(m) == m \in DOMAIN kind
       IN /\ c.op = "Resource" =>
                 (c.status = "ResourceError") =
                     (c.args[1] = None /\ c.args[2] = None)
          /\ c.op = "add" => (c.status = "ResourceError") = ~isNode(c.args[2])
          /\ c.status = "ResourceError" =>
                 members' = members /\ kind' = kind
          /\ (c.status = "ok" /\ c.op = "add") =>
                 members' = [members EXCEPT
                                ![c.args[1]] = Append(@, c.args[2])]
          /\ (c.status = "ok" /\ c.op = "Resource") =>
                 members' = IF c.args[3] = 0 THEN members
                            ELSE [members EXCEPT
                                     ![c.args[3]] = Append(@, c.value)]
          /\ (c.status = "ok" /\ c.op = "ResourceGroup") =>
                 members' = (IF c.args[1] = 0 THEN members
                             ELSE [members EXCEPT
                                      ![c.args[1]] = Append(@, c.value)])
                            @@ (c.value :> <<>>)
      ]_vars

\* A resource with neither file nor URL was constructed with group=G, G
\* holding an accepted member already.
C14_Witness ==
    /\ called.op = "Resource"
    /\ called.status = "ResourceError"
    /\ called.args[3] # 0
    /\ Len(members[called.args[3]]) = 1
    /\ Len(kind) < MaxObjects

====
